---------------------------- MODULE Spec2Model ----------------------------
(***************************************************************************)
(* Model of the order-book Aggregator of src/server/src/aggregator.rs:     *)
(* the recursive two-way merge and the process handler that stores a       *)
(* source's snapshot, maintains the lead counters, logs the lead warning   *)
(* and broadcasts a Summary through the Spmc.                              *)
(*                                                                         *)
(* Prices and amounts are f64 in the source.  They are modelled as         *)
(* integers: the code only compares prices with > and subtracts two        *)
(* prices, both exact on small integers, and the connector never supplies  *)
(* a NaN.                                                                  *)
(***************************************************************************)
EXTENDS Integers, Sequences, FiniteSets, TLC

(***************************************************************************)
(* Program constants.                                                      *)
(***************************************************************************)
DEPTH == 10
LEAD_TOLERANCE == 3

\* The two display names handed to Aggregator::new.
exchange_01_name == "Binance"
exchange_02_name == "Bitstamp"

\* Amounts of the two arrays in the unit tests of merge.
Amount_01 == 13
Amount_02 == 37

(***************************************************************************)
(* Bounds of the model.                                                    *)
(***************************************************************************)
\* Plateau arrays take their prices in BasePrice+1 .. BasePrice+MaxPrice.
MaxPrice == 2
BasePrice == 19
\* Ladder arrays step by 0 .. MaxStep per rank.
MaxStep == 2
\* Longest run of consecutive process calls for one source.
MaxRun == 4
\* Most calls of process begun and not yet returned.
MaxFlight == 2

\* First prices of the ladder arrays (those of the unit tests of merge).
BidStarts == {20, 26}
AskStarts == {10, 6}

\* First ask prices of the snapshots: below the bids (a crossed book) and
\* at or above them.
SnapshotAskStarts == {10, 26}

\* Output capacities merge is started with.
Capacities == 0 .. 2 * DEPTH

\* source_id is a usize; 0 and 1 are the two streams, 2 stands for any other.
SourceIds == 0 .. 2

\* Option::None; Some(array) is the array itself, which has DEPTH > 0 entries.
None == <<>>

is_some(opt) == opt # None

(***************************************************************************)
(* Inputs: depth arrays sorted best-first, as the connectors supply them.  *)
(***************************************************************************)
Level(price, amount, exchange) ==
    [price |-> price, amount |-> amount, exchange |-> exchange]

\* side = TRUE is asks (ascending), FALSE is bids (descending).
Ladder(side, start, step, amount, exchange) ==
    [i \in 1 .. DEPTH |->
        Level(IF side THEN start + step * (i - 1) ELSE start - step * (i - 1),
              amount, exchange)]

RECURSIVE NonDecreasing(_, _)
NonDecreasing(n, lo) ==
    IF n = 0 THEN {<<>>}
    ELSE UNION {{<<v>> \o s : s \in NonDecreasing(n - 1, v)} : v \in lo .. MaxPrice}

Plateau(side, prices, amount, exchange) ==
    [i \in 1 .. DEPTH |->
        Level(BasePrice + (IF side THEN prices[i] ELSE prices[DEPTH + 1 - i]),
              amount, exchange)]

Starts(side) == IF side THEN AskStarts ELSE BidStarts

Ladders(side, amount, exchange) ==
    {Ladder(side, start, step, amount, exchange) :
        start \in Starts(side), step \in 0 .. MaxStep}

Arrays(side, amount, exchange) ==
    Ladders(side, amount, exchange)
    \cup {Plateau(side, p, amount, exchange) : p \in NonDecreasing(DEPTH, 1)}

\* OrderbookSnapshot<DEPTH> of one source: its bids and its asks.
Snapshots(amount, exchange) ==
    {[bids |-> Ladder(FALSE, b, step, amount, exchange),
      asks |-> Ladder(TRUE, a, step, amount, exchange)] :
        b \in BidStarts, a \in SnapshotAskStarts, step \in 0 .. MaxStep}

SnapshotsOf(source_id) ==
    IF source_id = 1 THEN Snapshots(Amount_02, exchange_02_name)
    ELSE Snapshots(Amount_01, exchange_01_name)

VARIABLES
    \* Aggregator fields
    best_bids_01, best_bids_02, best_asks_01, best_asks_02, lead_01, lead_02,
    \* effects of the latest process call
    sent,        \* the Summaries it broadcast to the Spmc, in order
    warnings,    \* the lead warnings it logged
    branch,      \* which publication branch it took
    panicked,    \* it panicked (the task is gone)
    \* history of the calls
    last_call,   \* <<source_id>> of the latest call, <<>> before the first
    run,         \* the run of consecutive valid calls for one source
    reported,    \* the sources that have had a valid call
    latest,      \* per source, the snapshot of its latest valid call
    resupplied,  \* the latest call supplied the snapshot its source had stored
    \* the calls of process suspended at spmc.lock().await, oldest first
    flight,
    \* one running merge
    m_merged, m_capacity, m_levels_01, m_levels_02, m_index_01, m_index_02,
    m_side, m_pc, m_depth

aggVars == <<best_bids_01, best_bids_02, best_asks_01, best_asks_02, lead_01,
             lead_02, sent, warnings, branch, panicked, last_call, run,
             reported, latest, resupplied, flight>>
mergeVars == <<m_merged, m_capacity, m_levels_01, m_levels_02, m_index_01,
               m_index_02, m_side, m_pc, m_depth>>
vars == <<aggVars, mergeVars>>

\* copy_level that leaves the exchange of the copy empty.
copy_level_unlabelled(level) ==
    [price |-> level.price, amount |-> level.amount, exchange |-> ""]

(***************************************************************************)
(* copy_level: a new Level with the same price, amount and exchange.       *)
(***************************************************************************)
copy_level(level) ==
    [price |-> level.price, amount |-> level.amount, exchange |-> level.exchange]

stream_exceeded_lead_tolerance(lead) == lead >= LEAD_TOLERANCE

\* The line log_lead_warning prints, as the pair it is formatted from.
log_lead_warning(exchange_name, lead) ==
    [exchange_name |-> exchange_name, lead |-> lead]


(***************************************************************************)
(* merge.  One invocation either returns at once (the output is full) or   *)
(* pushes one level, advances that array's cursor and recurses.            *)
(* merge_push is the push of one invocation: the new output and cursors,   *)
(* or a panic when the array it reads is indexed at DEPTH or beyond.       *)
(***************************************************************************)
\* levels[index] of a [Level; DEPTH]: arrays are 0-based in the source.
in_bounds(index) == index < DEPTH
at(levels, index) == levels[index + 1]

push_01(merged, levels_01, index_01, index_02) ==
    IF in_bounds(index_01)
    THEN [panic |-> FALSE, merged |-> Append(merged, copy_level(at(levels_01, index_01))),
          index_01 |-> index_01 + 1, index_02 |-> index_02]
    ELSE [panic |-> TRUE, merged |-> merged, index_01 |-> index_01, index_02 |-> index_02]

\* push_02 that leaves the cursor of levels_02 where it is.
push_02_no_advance(merged, levels_02, index_01, index_02) ==
    IF in_bounds(index_02)
    THEN [panic |-> FALSE, merged |-> Append(merged, copy_level(at(levels_02, index_02))),
          index_01 |-> index_01, index_02 |-> index_02]
    ELSE [panic |-> TRUE, merged |-> merged, index_01 |-> index_01, index_02 |-> index_02]

push_02(merged, levels_02, index_01, index_02) ==
    IF in_bounds(index_02)
    THEN [panic |-> FALSE, merged |-> Append(merged, copy_level(at(levels_02, index_02))),
          index_01 |-> index_01, index_02 |-> index_02 + 1]
    ELSE [panic |-> TRUE, merged |-> merged, index_01 |-> index_01, index_02 |-> index_02]

\* merge_push reading on from the array whose cursor has reached DEPTH.
merge_push_exhausted_swapped(merged, levels_01, levels_02, index_01, index_02, side) ==
    IF index_01 >= DEPTH THEN push_01(merged, levels_01, index_01, index_02)
    ELSE IF index_02 >= DEPTH THEN push_02(merged, levels_02, index_01, index_02)
    ELSE IF at(levels_01, index_01).price > at(levels_02, index_02).price
         THEN IF side THEN push_02(merged, levels_02, index_01, index_02)
                      ELSE push_01(merged, levels_01, index_01, index_02)
         ELSE IF side THEN push_01(merged, levels_01, index_01, index_02)
                      ELSE push_02(merged, levels_02, index_01, index_02)

\* merge_push comparing with >= instead of >.
merge_push_ge(merged, levels_01, levels_02, index_01, index_02, side) ==
    IF index_01 >= DEPTH THEN push_02(merged, levels_02, index_01, index_02)
    ELSE IF index_02 >= DEPTH THEN push_01(merged, levels_01, index_01, index_02)
    ELSE IF at(levels_01, index_01).price >= at(levels_02, index_02).price
         THEN IF side THEN push_02(merged, levels_02, index_01, index_02)
                      ELSE push_01(merged, levels_01, index_01, index_02)
         ELSE IF side THEN push_01(merged, levels_01, index_01, index_02)
                      ELSE push_02(merged, levels_02, index_01, index_02)

merge_push(merged, levels_01, levels_02, index_01, index_02, side) ==
    IF side
    THEN \* asks
         IF index_01 >= DEPTH THEN push_02(merged, levels_02, index_01, index_02)
         ELSE IF index_02 >= DEPTH THEN push_01(merged, levels_01, index_01, index_02)
         ELSE IF at(levels_01, index_01).price > at(levels_02, index_02).price
              THEN push_02(merged, levels_02, index_01, index_02)
              ELSE push_01(merged, levels_01, index_01, index_02)
    ELSE \* bids
         IF index_01 >= DEPTH THEN push_02(merged, levels_02, index_01, index_02)
         ELSE IF index_02 >= DEPTH THEN push_01(merged, levels_01, index_01, index_02)
         ELSE IF at(levels_01, index_01).price > at(levels_02, index_02).price
              THEN push_01(merged, levels_01, index_01, index_02)
              ELSE push_02(merged, levels_02, index_01, index_02)

\* The whole recursion, for the callers of merge: the final output, or a panic.
\* capacity is merged.capacity(), fixed by Vec::with_capacity at the call site.
RECURSIVE merge(_, _, _, _, _, _, _)
merge(merged, capacity, levels_01, levels_02, index_01, index_02, side) ==
    IF Len(merged) = capacity THEN [panic |-> FALSE, merged |-> merged]
    ELSE LET r == merge_push(merged, levels_01, levels_02, index_01, index_02, side)
         IN  IF r.panic THEN [panic |-> TRUE, merged |-> r.merged]
             ELSE merge(r.merged, capacity, levels_01, levels_02,
                        r.index_01, r.index_02, side)

(***************************************************************************)
(* The merge test bench: merge run one invocation at a time on two sorted  *)
(* arrays, as the unit tests start it (empty output, both cursors at 0).   *)
(***************************************************************************)
\* The invocation whose output is full: it returns, and so does the recursion.
MergeReturn ==
    /\ m_pc = "running"
    /\ Len(m_merged) = m_capacity
    /\ m_pc' = "returned"
    /\ m_depth' = m_depth + 1
    /\ UNCHANGED <<m_merged, m_capacity, m_levels_01, m_levels_02, m_index_01,
                   m_index_02, m_side>>
    /\ UNCHANGED aggVars

\* An invocation that pushes a level and recurses.
MergeRecurse ==
    /\ m_pc = "running"
    /\ Len(m_merged) # m_capacity
    /\ LET r == merge_push(m_merged, m_levels_01, m_levels_02, m_index_01,
                           m_index_02, m_side)
       IN  /\ m_merged' = r.merged
           /\ m_index_01' = r.index_01
           /\ m_index_02' = r.index_02
           /\ m_pc' = IF r.panic THEN "panicked" ELSE "running"
    /\ m_depth' = m_depth + 1
    /\ UNCHANGED <<m_capacity, m_levels_01, m_levels_02, m_side>>
    /\ UNCHANGED aggVars

AggIdle ==
    /\ best_bids_01 = None /\ best_bids_02 = None
    /\ best_asks_01 = None /\ best_asks_02 = None
    /\ lead_01 = 0 /\ lead_02 = 0
    /\ sent = <<>> /\ warnings = <<>> /\ branch = "none" /\ panicked = FALSE
    /\ last_call = <<>> /\ run = [source |-> 0, len |-> 0]
    /\ reported = {} /\ latest = [s \in 0 .. 1 |-> None]
    /\ resupplied = FALSE /\ flight = <<>>

MergeIdle ==
    /\ m_merged = <<>> /\ m_capacity = 0 /\ m_levels_01 = None /\ m_levels_02 = None
    /\ m_index_01 = 0 /\ m_index_02 = 0 /\ m_side = FALSE /\ m_pc = "idle"
    /\ m_depth = 0

MergeInit ==
    /\ AggIdle
    /\ m_side \in BOOLEAN
    /\ m_levels_01 \in Arrays(m_side, Amount_01, exchange_01_name)
    /\ m_levels_02 \in Arrays(m_side, Amount_02, exchange_02_name)
    /\ m_capacity \in Capacities
    /\ m_merged = <<>> /\ m_index_01 = 0 /\ m_index_02 = 0
    /\ m_pc = "running" /\ m_depth = 0

MergeNext == MergeReturn \/ MergeRecurse

MergeSpec == MergeInit /\ [][MergeNext]_vars

(***************************************************************************)
(* Properties of merge.                                                    *)
(***************************************************************************)
Range(seq) == {seq[i] : i \in 1 .. Len(seq)}

\* Best first: non-decreasing prices for asks, non-increasing for bids.
SortedBestFirst(side, levels) ==
    \A i \in 1 .. Len(levels) - 1 :
        IF side THEN levels[i].price <= levels[i + 1].price
                ELSE levels[i].price >= levels[i + 1].price

\* C1: merge started on two sorted DEPTH-arrays with an empty output of
\* capacity DEPTH and both cursors at 0 does not panic and returns exactly
\* DEPTH levels, sorted in the side's order, each equal in price, amount
\* and exchange to an entry of levels_01 or levels_02.
C1_MergeSortedVerbatim ==
    m_capacity = DEPTH =>
        /\ m_pc # "panicked"
        /\ m_pc = "returned" =>
              /\ Len(m_merged) = DEPTH
              /\ SortedBestFirst(m_side, m_merged)
              /\ Range(m_merged) \subseteq Range(m_levels_01) \cup Range(m_levels_02)

\* A returned merge of capacity DEPTH whose output draws on both arrays.
C1_Witness ==
    /\ m_pc = "returned" /\ m_capacity = DEPTH
    /\ m_index_01 > 0 /\ m_index_02 > 0
    /\ Len(m_merged) = DEPTH

\* The invocation at hand compares the two current levels and they tie.
TieCompared ==
    /\ m_pc = "running"
    /\ Len(m_merged) # m_capacity
    /\ m_index_01 < DEPTH /\ m_index_02 < DEPTH
    /\ at(m_levels_01, m_index_01).price = at(m_levels_02, m_index_02).price

Emits_01 ==
    /\ m_merged' = Append(m_merged, at(m_levels_01, m_index_01))
    /\ m_index_01' = m_index_01 + 1 /\ m_index_02' = m_index_02

Emits_02 ==
    /\ m_merged' = Append(m_merged, at(m_levels_02, m_index_02))
    /\ m_index_02' = m_index_02 + 1 /\ m_index_01' = m_index_01

\* C2 as stated: on a tie a bid merge emits the level of levels_01 and an
\* ask merge the level of levels_02.
C2_TieAsClaimed ==
    [][TieCompared => IF m_side THEN Emits_02 ELSE Emits_01]_vars

\* C2, amended: on a tie a bid merge emits the level of levels_02 (source
\* id 1) first and an ask merge emits the level of levels_01 (source id 0)
\* first.
C2_TieBreak ==
    [][TieCompared => IF m_side THEN Emits_01 ELSE Emits_02]_vars

\* A bid merge has just resolved a tie: the level it pushed last is the one
\* of levels_02 before its cursor, at the price of the current level of
\* levels_01.
C2_Witness ==
    /\ ~m_side /\ m_pc = "running"
    /\ m_index_02 > 0 /\ m_index_01 < DEPTH
    /\ m_merged[Len(m_merged)] = at(m_levels_02, m_index_02 - 1)
    /\ at(m_levels_02, m_index_02 - 1).price = at(m_levels_01, m_index_01).price

\* The price and amount of every level, in order.
PriceAmount(levels) ==
    [i \in 1 .. Len(levels) |-> <<levels[i].price, levels[i].amount>>]

\* The arrays of should_merge_bids and of should_merge_asks.
BidFixture ==
    /\ ~m_side /\ m_capacity = DEPTH
    /\ PriceAmount(m_levels_01) = [i \in 1 .. DEPTH |-> <<21 - i, 13>>]
    /\ PriceAmount(m_levels_02) = [i \in 1 .. DEPTH |-> <<28 - 2 * i, 37>>]

AskFixture ==
    /\ m_side /\ m_capacity = DEPTH
    /\ PriceAmount(m_levels_01) = [i \in 1 .. DEPTH |-> <<9 + i, 13>>]
    /\ PriceAmount(m_levels_02) = [i \in 1 .. DEPTH |-> <<4 + 2 * i, 37>>]

\* C11: the bid merge of 20,19,...,11 (amount 13) and 26,24,...,8 (amount
\* 37) with capacity 10 returns 26/37, 24/37, 22/37, 20/37, 20/13, 19/13,
\* 18/37, 18/13, 17/13, 16/37.
C11_BidFixture ==
    (BidFixture /\ m_pc # "running") =>
        /\ m_pc = "returned"
        /\ PriceAmount(m_merged) =
              << <<26, 37>>, <<24, 37>>, <<22, 37>>, <<20, 37>>, <<20, 13>>,
                 <<19, 13>>, <<18, 37>>, <<18, 13>>, <<17, 13>>, <<16, 37>> >>

\* The bid merge of the fixture has returned.
C11_Witness == BidFixture /\ m_pc = "returned" /\ Len(m_merged) = DEPTH

\* C12: the ask merge of 10,11,...,19 (amount 13) and 6,8,...,24 (amount
\* 37) with capacity 10 returns 6/37, 8/37, 10/13, 10/37, 11/13, 12/13,
\* 12/37, 13/13, 14/13, 14/37.
C12_AskFixture ==
    (AskFixture /\ m_pc # "running") =>
        /\ m_pc = "returned"
        /\ PriceAmount(m_merged) =
              << <<6, 37>>, <<8, 37>>, <<10, 13>>, <<10, 37>>, <<11, 13>>,
                 <<12, 13>>, <<12, 37>>, <<13, 13>>, <<14, 13>>, <<14, 37>> >>

\* The ask merge of the fixture has returned.
C12_Witness == AskFixture /\ m_pc = "returned" /\ Len(m_merged) = DEPTH

\* The levels of the output that carry the given exchange, in order.
From(levels, exchange) == SelectSeq(levels, LAMBDA l : l.exchange = exchange)

\* C17: with capacity 2 * DEPTH merge returns all 2 * DEPTH input levels,
\* each once, in the side's order: the levels of each array appear in the
\* array's order, and while it runs with one cursor at DEPTH it has taken
\* every level since from the other array, in order.
C17_FullMerge ==
    m_capacity = 2 * DEPTH =>
        /\ m_pc # "panicked"
        /\ From(m_merged, exchange_01_name) = SubSeq(m_levels_01, 1, m_index_01)
        /\ From(m_merged, exchange_02_name) = SubSeq(m_levels_02, 1, m_index_02)
        /\ Len(m_merged) = m_index_01 + m_index_02
        /\ m_pc = "returned" =>
              /\ m_index_01 = DEPTH /\ m_index_02 = DEPTH
              /\ Len(m_merged) = 2 * DEPTH
              /\ SortedBestFirst(m_side, m_merged)

\* A full merge has returned after one array ran out with levels of the
\* other still to come, and both arrays lead somewhere in the output.
C17_Witness ==
    /\ m_pc = "returned" /\ m_capacity = 2 * DEPTH
    /\ Len(m_merged) = 2 * DEPTH
    /\ m_merged[2 * DEPTH - 1].exchange = m_merged[2 * DEPTH].exchange
    /\ m_merged[1].exchange # m_merged[2 * DEPTH].exchange

\* C18: for every capacity c in 0 .. 2 * DEPTH merge never reads an array
\* at DEPTH or beyond, keeps index_01 + index_02 equal to the length of
\* the output with neither cursor above DEPTH, pushes one level and
\* advances one cursor by one at every recursive step, and returns after
\* exactly c such steps (in its invocation c + 1) with exactly c levels.
C18_StepInvariant ==
    /\ m_capacity \in 0 .. 2 * DEPTH
    /\ m_pc # "panicked"
    /\ m_index_01 + m_index_02 = Len(m_merged)
    /\ m_index_01 <= DEPTH /\ m_index_02 <= DEPTH
    /\ Len(m_merged) <= m_capacity
    /\ m_pc = "running" => m_depth = Len(m_merged)
    /\ m_pc = "returned" => Len(m_merged) = m_capacity /\ m_depth = m_capacity + 1

C18_StepAction ==
    (m_pc = "running" /\ Len(m_merged) # m_capacity) =>
        /\ Len(m_merged') = Len(m_merged) + 1
        /\ \/ m_index_01' = m_index_01 + 1 /\ m_index_02' = m_index_02
           \/ m_index_02' = m_index_02 + 1 /\ m_index_01' = m_index_01

C18_BoundedTraversal == []C18_StepInvariant /\ [][C18_StepAction]_vars

\* A merge with an odd capacity between DEPTH and 2 * DEPTH has returned
\* with one cursor at DEPTH.
C18_Witness ==
    /\ m_pc = "returned" /\ m_capacity = DEPTH + 5 /\ Len(m_merged) = m_capacity
    /\ m_depth = m_capacity + 1
    /\ (m_index_01 = DEPTH \/ m_index_02 = DEPTH)

(***************************************************************************)
(* process.  The Aggregator is the record self of its six mutable fields   *)
(* (spmc and the two names never change).                                  *)
(***************************************************************************)
Self ==
    [best_bids_01 |-> best_bids_01, best_bids_02 |-> best_bids_02,
     best_asks_01 |-> best_asks_01, best_asks_02 |-> best_asks_02,
     lead_01 |-> lead_01, lead_02 |-> lead_02]

\* arm_0 that drops the other source's arrays once it is LEAD_TOLERANCE
\* updates behind.
arm_0_drops_stale(self, snapshot) ==
    LET lead_01_new == self.lead_01 + 1
        stale == stream_exceeded_lead_tolerance(lead_01_new)
    IN  [panic |-> FALSE,
         best_bids_01 |-> snapshot.bids,
         best_bids_02 |-> IF stale THEN None ELSE self.best_bids_02,
         best_asks_01 |-> snapshot.asks,
         best_asks_02 |-> IF stale THEN None ELSE self.best_asks_02,
         lead_01 |-> lead_01_new, lead_02 |-> 0,
         warnings |-> IF stale
                      THEN <<log_lead_warning(exchange_01_name, lead_01_new)>>
                      ELSE <<>>]

\* arm_0 that does not store the asks.
arm_0_no_asks(self, snapshot) ==
    LET lead_01_new == self.lead_01 + 1
    IN  [panic |-> FALSE,
         best_bids_01 |-> snapshot.bids, best_bids_02 |-> self.best_bids_02,
         best_asks_01 |-> self.best_asks_01, best_asks_02 |-> self.best_asks_02,
         lead_01 |-> lead_01_new, lead_02 |-> 0,
         warnings |-> IF stream_exceeded_lead_tolerance(lead_01_new)
                      THEN <<log_lead_warning(exchange_01_name, lead_01_new)>>
                      ELSE <<>>]

\* arm_0 that does not reset lead_02.
arm_0_no_reset(self, snapshot) ==
    LET lead_01_new == self.lead_01 + 1
    IN  [panic |-> FALSE,
         best_bids_01 |-> snapshot.bids, best_bids_02 |-> self.best_bids_02,
         best_asks_01 |-> snapshot.asks, best_asks_02 |-> self.best_asks_02,
         lead_01 |-> lead_01_new, lead_02 |-> self.lead_02,
         warnings |-> IF stream_exceeded_lead_tolerance(lead_01_new)
                      THEN <<log_lead_warning(exchange_01_name, lead_01_new)>>
                      ELSE <<>>]

\* The arm of source 0: the fields after it, and the warnings it logged.
arm_0(self, snapshot) ==
    LET lead_01_new == self.lead_01 + 1
    IN  [panic |-> FALSE,
         best_bids_01 |-> snapshot.bids, best_bids_02 |-> self.best_bids_02,
         best_asks_01 |-> snapshot.asks, best_asks_02 |-> self.best_asks_02,
         lead_01 |-> lead_01_new, lead_02 |-> 0,
         warnings |-> IF stream_exceeded_lead_tolerance(lead_01_new)
                      THEN <<log_lead_warning(exchange_01_name, lead_01_new)>>
                      ELSE <<>>]

\* arm_1 that stores the snapshot in the fields of source 0.
arm_1_into_01(self, snapshot) ==
    [panic |-> FALSE,
     best_bids_01 |-> snapshot.bids, best_bids_02 |-> self.best_bids_02,
     best_asks_01 |-> snapshot.asks, best_asks_02 |-> self.best_asks_02,
     lead_01 |-> 0, lead_02 |-> 1,
     warnings |-> <<>>]

\* The arm of source 1: it sets lead_02 to 1 and tests lead_01, which it has
\* just set to 0.
arm_1(self, snapshot) ==
    [panic |-> FALSE,
     best_bids_01 |-> self.best_bids_01, best_bids_02 |-> snapshot.bids,
     best_asks_01 |-> self.best_asks_01, best_asks_02 |-> snapshot.asks,
     lead_01 |-> 0, lead_02 |-> 1,
     warnings |-> IF stream_exceeded_lead_tolerance(0)
                  THEN <<log_lead_warning(exchange_02_name, 1)>>
                  ELSE <<>>]

\* match source_id whose last arm, the one of source 1, takes every other id.
match_source_id_default_1(self, source_id, snapshot) ==
    IF source_id = 0 THEN arm_0(self, snapshot) ELSE arm_1(self, snapshot)

\* match source_id: any id but 0 and 1 panics before anything is touched.
match_source_id(self, source_id, snapshot) ==
    CASE source_id = 0 -> arm_0(self, snapshot)
      [] source_id = 1 -> arm_1(self, snapshot)
      [] OTHER -> [panic |-> TRUE,
                   best_bids_01 |-> self.best_bids_01, best_bids_02 |-> self.best_bids_02,
                   best_asks_01 |-> self.best_asks_01, best_asks_02 |-> self.best_asks_02,
                   lead_01 |-> self.lead_01, lead_02 |-> self.lead_02,
                   warnings |-> <<>>]

Summary(spread, bids, asks) == [spread |-> spread, bids |-> bids, asks |-> asks]

\* A panic while publishing (an unwrap of None, an index out of bounds):
\* nothing is broadcast.
publish_panic == [panic |-> TRUE, branch |-> "none", sent |-> <<>>]

\* publish_merged handing the second source to merge first.
publish_merged_swapped(bids_01, bids_02, asks_01, asks_02) ==
    IF ~is_some(bids_01) \/ ~is_some(bids_02) \/ ~is_some(asks_01) \/ ~is_some(asks_02)
    THEN publish_panic
    ELSE LET merged_best_bids == merge(<<>>, DEPTH, bids_02, bids_01, 0, 0, FALSE)
             merged_best_asks == merge(<<>>, DEPTH, asks_02, asks_01, 0, 0, TRUE)
         IN  IF \/ merged_best_bids.panic \/ merged_best_asks.panic
                \/ merged_best_bids.merged = <<>> \/ merged_best_asks.merged = <<>>
             THEN publish_panic
             ELSE [panic |-> FALSE, branch |-> "merged",
                   sent |-> <<Summary(Head(merged_best_asks.merged).price - Head(merged_best_bids.merged).price,
                                      merged_best_bids.merged,
                                      merged_best_asks.merged)>>]

\* publish_merged taking the spread from the first source's own top levels.
publish_merged_own_spread(bids_01, bids_02, asks_01, asks_02) ==
    IF ~is_some(bids_01) \/ ~is_some(bids_02) \/ ~is_some(asks_01) \/ ~is_some(asks_02)
    THEN publish_panic
    ELSE LET merged_best_bids == merge(<<>>, DEPTH, bids_01, bids_02, 0, 0, FALSE)
             merged_best_asks == merge(<<>>, DEPTH, asks_01, asks_02, 0, 0, TRUE)
         IN  IF \/ merged_best_bids.panic \/ merged_best_asks.panic
                \/ merged_best_bids.merged = <<>> \/ merged_best_asks.merged = <<>>
             THEN publish_panic
             ELSE [panic |-> FALSE, branch |-> "merged",
                   sent |-> <<Summary(Head(asks_01).price - Head(bids_01).price,
                                      merged_best_bids.merged,
                                      merged_best_asks.merged)>>]

\* publish_merged with outputs of capacity 2 * DEPTH.
publish_merged_double(bids_01, bids_02, asks_01, asks_02) ==
    IF ~is_some(bids_01) \/ ~is_some(bids_02) \/ ~is_some(asks_01) \/ ~is_some(asks_02)
    THEN publish_panic
    ELSE LET merged_best_bids == merge(<<>>, 2 * DEPTH, bids_01, bids_02, 0, 0, FALSE)
             merged_best_asks == merge(<<>>, 2 * DEPTH, asks_01, asks_02, 0, 0, TRUE)
         IN  IF \/ merged_best_bids.panic \/ merged_best_asks.panic
                \/ merged_best_bids.merged = <<>> \/ merged_best_asks.merged = <<>>
             THEN publish_panic
             ELSE [panic |-> FALSE, branch |-> "merged",
                   sent |-> <<Summary(Head(merged_best_asks.merged).price - Head(merged_best_bids.merged).price,
                                      merged_best_bids.merged,
                                      merged_best_asks.merged)>>]

\* The merged branch: both merges with capacity DEPTH, then one broadcast.
publish_merged(bids_01, bids_02, asks_01, asks_02) ==
    IF ~is_some(bids_01) \/ ~is_some(bids_02) \/ ~is_some(asks_01) \/ ~is_some(asks_02)
    THEN publish_panic
    ELSE LET merged_best_bids == merge(<<>>, DEPTH, bids_01, bids_02, 0, 0, FALSE)
             merged_best_asks == merge(<<>>, DEPTH, asks_01, asks_02, 0, 0, TRUE)
         IN  IF \/ merged_best_bids.panic \/ merged_best_asks.panic
                \/ merged_best_bids.merged = <<>> \/ merged_best_asks.merged = <<>>
             THEN publish_panic
             ELSE [panic |-> FALSE, branch |-> "merged",
                   sent |-> <<Summary(Head(merged_best_asks.merged).price
                                        - Head(merged_best_bids.merged).price,
                                      merged_best_bids.merged,
                                      merged_best_asks.merged)>>]

\* publish_single with bids and asks exchanged in the Summary.
publish_single_swapped(name, bids, asks) ==
    IF ~is_some(bids) \/ ~is_some(asks)
    THEN publish_panic
    ELSE [panic |-> FALSE, branch |-> name,
          sent |-> <<Summary(Head(asks).price - Head(bids).price, asks, bids)>>]

\* A single-source branch: the source's own arrays, to_vec'ed, in one broadcast.
publish_single(name, bids, asks) ==
    IF ~is_some(bids) \/ ~is_some(asks)
    THEN publish_panic
    ELSE [panic |-> FALSE, branch |-> name,
          sent |-> <<Summary(Head(asks).price - Head(bids).price, bids, asks)>>]

\* publish without the single-source branches: nothing goes out until both
\* sources have reported.
publish_merged_only(bids_01, bids_02, asks_01, asks_02) ==
    IF is_some(bids_01) /\ is_some(bids_02)
    THEN publish_merged(bids_01, bids_02, asks_01, asks_02)
    ELSE [panic |-> FALSE, branch |-> "none", sent |-> <<>>]

\* publish testing for the first source alone before testing for both.
publish_single_first(bids_01, bids_02, asks_01, asks_02) ==
    IF is_some(bids_01)
    THEN publish_single("single_01", bids_01, asks_01)
    ELSE IF is_some(bids_01) /\ is_some(bids_02)
         THEN publish_merged(bids_01, bids_02, asks_01, asks_02)
         ELSE publish_single("single_02", bids_02, asks_02)

\* The publication of process: which branch runs, and what it broadcasts.
publish(bids_01, bids_02, asks_01, asks_02) ==
    IF is_some(bids_01) /\ is_some(bids_02)
    THEN publish_merged(bids_01, bids_02, asks_01, asks_02)
    ELSE IF is_some(bids_01)
         THEN publish_single("single_01", bids_01, asks_01)
         ELSE publish_single("single_02", bids_02, asks_02)

\* One call of process, from the match to the return (or the panic).
process(source_id, snapshot) ==
    /\ ~panicked
    /\ (run.len > 0 /\ run.source = source_id) => run.len < MaxRun
    /\ \E m \in {match_source_id(Self, source_id, snapshot)} :
       \E p \in {IF m.panic THEN publish_panic
                 ELSE publish(m.best_bids_01, m.best_bids_02,
                              m.best_asks_01, m.best_asks_02)} :
           /\ best_bids_01' = m.best_bids_01
           /\ best_bids_02' = m.best_bids_02
           /\ best_asks_01' = m.best_asks_01
           /\ best_asks_02' = m.best_asks_02
           /\ lead_01' = m.lead_01
           /\ lead_02' = m.lead_02
           /\ warnings' = m.warnings
           /\ sent' = p.sent
           /\ branch' = p.branch
           /\ panicked' = p.panic
           /\ last_call' = <<source_id>>
           /\ IF m.panic \/ source_id \notin {0, 1}
              THEN resupplied' = FALSE /\ UNCHANGED <<run, reported, latest>>
              ELSE /\ run' = IF run.len > 0 /\ run.source = source_id
                             THEN [run EXCEPT !.len = @ + 1]
                             ELSE [source |-> source_id, len |-> 1]
                   /\ reported' = reported \cup {source_id}
                   /\ latest' = [latest EXCEPT ![source_id] = snapshot]
                   /\ resupplied' = (latest[source_id] = snapshot)
    /\ UNCHANGED flight
    /\ UNCHANGED mergeVars

Init == AggIdle /\ MergeIdle

Next == \E source_id \in SourceIds : \E snapshot \in SnapshotsOf(source_id) :
            process(source_id, snapshot)

Spec == Init /\ [][Next]_vars

(***************************************************************************)
(* process as the future it is, polled by tasks that share the            *)
(* Aggregator.  A call runs from its match to spmc.lock().await, where it  *)
(* may be suspended, and from the lock to its return.                      *)
(***************************************************************************)
\* process takes &mut self: a call can start only when none is in flight.
shared_borrow(calls) == TRUE

exclusive_borrow(calls) == calls = <<>>

\* What a call holds at spmc.lock().await: in the merged branch the two
\* merged vectors, which it has already built; in the single-source
\* branches nothing, the Summary is built from self once the lock is held.
suspended(source_id, m) ==
    LET both == is_some(m.best_bids_01) /\ is_some(m.best_bids_02)
    IN  [source_id |-> source_id,
         branch |-> IF both THEN "merged"
                    ELSE IF is_some(m.best_bids_01) THEN "single_01"
                    ELSE "single_02",
         merged |-> IF both
                    THEN publish_merged(m.best_bids_01, m.best_bids_02,
                                        m.best_asks_01, m.best_asks_02)
                    ELSE publish_panic,
         \* history: the four arrays right after the call's own mutation
         stored |-> <<m.best_bids_01, m.best_bids_02, m.best_asks_01, m.best_asks_02>>]

\* From the match to spmc.lock().await.
process_start(source_id, snapshot) ==
    /\ ~panicked
    /\ exclusive_borrow(flight)
    /\ Len(flight) < MaxFlight
    /\ (run.len > 0 /\ run.source = source_id) => run.len < MaxRun
    /\ \E m \in {match_source_id(Self, source_id, snapshot)} :
           /\ best_bids_01' = m.best_bids_01
           /\ best_bids_02' = m.best_bids_02
           /\ best_asks_01' = m.best_asks_01
           /\ best_asks_02' = m.best_asks_02
           /\ lead_01' = m.lead_01
           /\ lead_02' = m.lead_02
           /\ warnings' = m.warnings
           /\ panicked' = m.panic
           /\ last_call' = <<source_id>>
           /\ IF m.panic \/ source_id \notin {0, 1}
              THEN resupplied' = FALSE /\ UNCHANGED <<run, reported, latest, flight>>
              ELSE /\ run' = IF run.len > 0 /\ run.source = source_id
                             THEN [run EXCEPT !.len = @ + 1]
                             ELSE [source |-> source_id, len |-> 1]
                   /\ reported' = reported \cup {source_id}
                   /\ latest' = [latest EXCEPT ![source_id] = snapshot]
                   /\ resupplied' = (latest[source_id] = snapshot)
                   /\ flight' = Append(flight, suspended(source_id, m))
    /\ UNCHANGED <<sent, branch>>
    /\ UNCHANGED mergeVars

\* From the lock to the return of the i-th call in flight: the broadcast.
process_finish(i) ==
    /\ ~panicked
    /\ i \in 1 .. Len(flight)
    /\ \E p \in {IF flight[i].branch = "merged" THEN flight[i].merged
                 ELSE IF flight[i].branch = "single_01"
                      THEN publish_single("single_01", best_bids_01, best_asks_01)
                      ELSE publish_single("single_02", best_bids_02, best_asks_02)} :
           /\ sent' = p.sent
           /\ branch' = p.branch
           /\ panicked' = p.panic
    /\ flight' = [j \in 1 .. Len(flight) - 1 |->
                    IF j < i THEN flight[j] ELSE flight[j + 1]]
    /\ UNCHANGED <<best_bids_01, best_bids_02, best_asks_01, best_asks_02,
                   lead_01, lead_02, warnings, last_call, run, reported, latest,
                   resupplied>>
    /\ UNCHANGED mergeVars

ConcNext ==
    \/ \E source_id \in SourceIds : \E snapshot \in SnapshotsOf(source_id) :
            process_start(source_id, snapshot)
    \/ \E i \in 1 .. MaxFlight : process_finish(i)

ConcSpec == Init /\ [][ConcNext]_vars

(***************************************************************************)
(* Properties of process.                                                  *)
(***************************************************************************)
\* The latest call of process had a valid source id.
ValidCall == last_call # <<>> /\ last_call[1] \in {0, 1}

LeadOf(source_id) == IF source_id = 0 THEN lead_01 ELSE lead_02
NameOf(source_id) == IF source_id = 0 THEN exchange_01_name ELSE exchange_02_name

\* C3: every call of process with source id 0 or 1 has, when it returns,
\* issued exactly one broadcast of a Summary, and it does return (no
\* panic), whatever the lead counters are and whether or not it logged a
\* lead warning.
C3_OneBroadcastPerCall ==
    ValidCall => Len(sent) = 1 /\ ~panicked

\* A call that logged a lead warning and broadcast its Summary all the same.
C3_Witness ==
    ValidCall /\ warnings # <<>> /\ Len(sent) = 1 /\ lead_01 >= LEAD_TOLERANCE

\* C4 as stated: after a run of k >= 1 consecutive calls for source X, X's
\* lead counter is k and the other source's is 0.
C4_LeadCountsRun ==
    ValidCall =>
        /\ LeadOf(run.source) = run.len
        /\ LeadOf(1 - run.source) = 0

\* C5 as stated: a call logs a lead warning, naming its source and the
\* length of the source's run, exactly when that run is LEAD_TOLERANCE
\* calls or longer.
C5_WarningFromThirdCall ==
    ValidCall =>
        warnings = IF run.len >= LEAD_TOLERANCE
                   THEN <<log_lead_warning(NameOf(run.source), run.len)>>
                   ELSE <<>>

\* The Summary that passes a snapshot through unchanged.
PassThrough(snapshot) ==
    Summary(snapshot.asks[1].price - snapshot.bids[1].price,
            snapshot.bids, snapshot.asks)

\* C6: while only one source X has ever reported, every call for X
\* broadcasts X's just-supplied bids and asks unchanged, with the spread
\* X.asks[0].price - X.bids[0].price.
C6_SingleSourcePassThrough ==
    \A X \in {0, 1} :
        (ValidCall /\ reported = {X}) => sent = <<PassThrough(latest[X])>>

\* Source 1 alone has reported, more than once, and its snapshot went out.
C6_Witness ==
    /\ ValidCall /\ reported = {1} /\ run.len >= 2
    /\ sent = <<PassThrough(latest[1])>>

\* C7: a call publishes a merged Summary exactly when both sources have
\* reported up to and including it; so once both have reported no call
\* falls back to a single-source pass-through.
C7_MergedIffBothReported ==
    ValidCall => (branch = "merged" <=> reported = {0, 1})

\* A merged publication by a call later than the one that completed the pair.
C7_Witness ==
    ValidCall /\ reported = {0, 1} /\ run.len >= 2 /\ branch = "merged"

\* The output of merge with capacity DEPTH from empty, cursors at 0.
Merged(levels_01, levels_02, side) ==
    merge(<<>>, DEPTH, levels_01, levels_02, 0, 0, side).merged

\* C8: once both sources have reported, the Summary a call broadcasts has
\* bids = merge(latest source-0 bids, latest source-1 bids) and
\* asks = merge(latest source-0 asks, latest source-1 asks), source 0 first,
\* whichever source reported last and whatever the lead counters.
C8_MergedFromLatest ==
    (ValidCall /\ reported = {0, 1}) =>
        /\ Len(sent) = 1
        /\ sent[1].bids = Merged(latest[0].bids, latest[1].bids, FALSE)
        /\ sent[1].asks = Merged(latest[0].asks, latest[1].asks, TRUE)

\* Source 1 reported last and the two best bids tie, so that the order of
\* the arguments of merge shows in the Summary.
C8_Witness ==
    /\ ValidCall /\ reported = {0, 1} /\ last_call = <<1>> /\ Len(sent) = 1
    /\ latest[0].bids[1].price = latest[1].bids[1].price
    /\ sent[1].bids = Merged(latest[0].bids, latest[1].bids, FALSE)
    /\ sent[1].bids # Merged(latest[1].bids, latest[0].bids, FALSE)

\* C9: every broadcast Summary has spread = asks[0].price - bids[0].price
\* of that Summary; a crossed book goes out with its negative spread and
\* the call neither panics nor withholds the Summary.
C9_SpreadOfTopLevels ==
    ValidCall =>
        /\ Len(sent) = 1 /\ ~panicked
        /\ sent[1].spread = sent[1].asks[1].price - sent[1].bids[1].price

\* A merged Summary of a crossed book, broadcast with its negative spread.
C9_Witness ==
    /\ ValidCall /\ branch = "merged" /\ Len(sent) = 1
    /\ sent[1].asks[1].price < sent[1].bids[1].price
    /\ sent[1].spread < 0

\* C10: every broadcast Summary has at most DEPTH bids and at most DEPTH
\* asks; a merged Summary, built from 2 * DEPTH levels per side, has
\* exactly DEPTH of them on each side.
C10_AtMostDepthLevels ==
    \A i \in 1 .. Len(sent) :
        /\ Len(sent[i].bids) <= DEPTH /\ Len(sent[i].asks) <= DEPTH
        /\ branch = "merged" =>
              Len(sent[i].bids) = DEPTH /\ Len(sent[i].asks) = DEPTH

\* A merged Summary of DEPTH levels per side that draws on both sources.
C10_Witness ==
    /\ branch = "merged" /\ Len(sent) = 1
    /\ Len(sent[1].bids) = DEPTH /\ Len(sent[1].asks) = DEPTH
    /\ {l.exchange : l \in Range(sent[1].bids)} = {exchange_01_name, exchange_02_name}

\* C13: once both sources have reported, a call for a source with the
\* snapshot that source has stored broadcasts the Summary the call before
\* it broadcast.
C13_Idempotent ==
    [][(/\ ValidCall /\ reported = {0, 1} /\ ~panicked
        /\ latest' = latest /\ run' # run)
       => sent' = sent]_vars

\* A merged Summary broadcast by a call that supplied the stored snapshot
\* again, after a merged Summary of the same two snapshots.
C13_Witness ==
    /\ ValidCall /\ reported = {0, 1} /\ resupplied /\ run.len >= 2
    /\ branch = "merged" /\ Len(sent) = 1

\* The arrays stored for a source.
StoredBids(source_id) == IF source_id = 0 THEN best_bids_01 ELSE best_bids_02
StoredAsks(source_id) == IF source_id = 0 THEN best_asks_01 ELSE best_asks_02

\* C14: the arrays stored for a source are None until its first call and
\* from then on the bids and the asks of the snapshot of its latest call,
\* whatever calls the other source has had since.
C14_StoredIsLatest ==
    \A X \in {0, 1} :
        IF X \in reported
        THEN /\ StoredBids(X) = latest[X].bids /\ StoredAsks(X) = latest[X].asks
             /\ is_some(StoredBids(X)) /\ is_some(StoredAsks(X))
        ELSE StoredBids(X) = None /\ StoredAsks(X) = None

C14_Frame ==
    \A X \in {0, 1} :
        (last_call' = <<X>> /\ run' # run) =>
            /\ StoredBids(1 - X)' = StoredBids(1 - X)
            /\ StoredAsks(1 - X)' = StoredAsks(1 - X)
            /\ StoredBids(X)' = latest'[X].bids
            /\ StoredAsks(X)' = latest'[X].asks

C14_ReplaceWholesale == []C14_StoredIsLatest /\ [][C14_Frame]_vars

\* Source 1 has replaced its snapshot by another one while source 0's
\* stayed stored.
C14_Witness ==
    /\ reported = {0, 1} /\ last_call = <<1>> /\ run.len >= 2 /\ ~resupplied
    /\ best_bids_02 = latest[1].bids /\ best_asks_02 = latest[1].asks
    /\ best_bids_01 = latest[0].bids /\ best_asks_01 = latest[0].asks

\* C15: a call with a source id other than 0 and 1 panics, leaves the four
\* arrays and the two lead counters as they were and broadcasts nothing.
C15_InvalidSourcePanics ==
    [][(last_call' # last_call /\ last_call'[1] \notin {0, 1}) =>
          /\ panicked'
          /\ sent' = <<>>
          /\ UNCHANGED <<best_bids_01, best_bids_02, best_asks_01, best_asks_02,
                         lead_01, lead_02>>]_vars

\* The panic of a call with source id 2 on an Aggregator that holds both
\* sources' arrays.
C15_Witness ==
    /\ last_call = <<2>> /\ panicked /\ sent = <<>>
    /\ is_some(best_bids_01) /\ is_some(best_bids_02) /\ lead_01 + lead_02 > 0

\* C19: for each source the bids are stored exactly when the asks are, and
\* no call with a valid source id panics on an unwrap.
C19_BidsIffAsks ==
    /\ is_some(best_bids_01) <=> is_some(best_asks_01)
    /\ is_some(best_bids_02) <=> is_some(best_asks_02)
    /\ ValidCall => ~panicked /\ branch \in {"merged", "single_01", "single_02"}

\* Source 0 alone is stored, bids and asks, and its pass-through went out.
C19_Witness ==
    /\ ValidCall /\ branch = "single_01" /\ ~panicked
    /\ is_some(best_bids_01) /\ is_some(best_asks_01)
    /\ ~is_some(best_bids_02) /\ ~is_some(best_asks_02)

\* C20: at most one lead counter is non-zero; both are 0 before the first
\* call, and after a call with a valid source id the counter of its source
\* is at least 1 and the other is 0.
C20_OneLeadNonZero ==
    /\ lead_01 = 0 \/ lead_02 = 0
    /\ last_call = <<>> => lead_01 = 0 /\ lead_02 = 0
    /\ ValidCall => LeadOf(last_call[1]) >= 1 /\ LeadOf(1 - last_call[1]) = 0

\* Source 0 has taken the lead back from source 1.
C20_Witness ==
    /\ ValidCall /\ reported = {0, 1} /\ last_call = <<0>>
    /\ lead_01 >= 2 /\ lead_02 = 0

\* The Summary of the four arrays a call left stored.
SummaryOf(stored) == publish(stored[1], stored[2], stored[3], stored[4]).sent

\* C16: no call of process starts between another call's mutation and its
\* broadcast; so every broadcast is the one of the oldest call in flight,
\* and its Summary is built from the arrays stored right after that call's
\* own mutation.
C16_CallsDoNotInterleave ==
    [][/\ Len(flight') <= 1
       /\ Len(flight') < Len(flight) =>
             /\ flight' = Tail(flight)
             /\ sent' = SummaryOf(Head(flight).stored)]_vars

\* A call has returned after broadcasting the merged Summary of the arrays
\* it left stored, and it was not the first call of its source.
C16_Witness ==
    /\ flight = <<>> /\ ValidCall /\ reported = {0, 1} /\ run.len >= 2
    /\ branch = "merged" /\ Len(sent) = 1
    /\ sent = SummaryOf(<<best_bids_01, best_bids_02, best_asks_01, best_asks_02>>)

=============================================================================
